---------------------------- MODULE Spec2Model ----------------------------
(***************************************************************************)
(* PayEye: a two-stage document pipeline.                                  *)
(*   attached_assets/ocr_1750868780385.py                                  *)
(*       perform_OCR: directory of documents -> <stem>.txt                 *)
(*   attached_assets/json_creation_1750868780384.py                       *)
(*       create_JSON: directory of .txt transcripts -> <stem>.json plus    *)
(*       an in-memory results mapping                                      *)
(*                                                                         *)
(* Text is a sequence of one-character strings, so that strip(), lower()   *)
(* and the regular-expression substitutions are computed character by      *)
(* character.  A parsed JSON value is a node [t, s, items, n]: t is the    *)
(* Python type, s the characters of a str (or the repr of a number), items *)
(* the ordered entries [k, v] of a dict (k the key) or of a list (k empty) *)
(* and n the value of a float in units of 1/Scale.                         *)
(***************************************************************************)
EXTENDS Integers, Sequences, FiniteSets, TLC

VARIABLES
    pc,           \* position of the running function
    txt_files,    \* create_JSON: the globbed transcripts (stems), in order
    idx,          \* index of the next element of the running for-loop
    results,      \* create_JSON: file stem -> result or error marker
    json_disk,    \* output directory of create_JSON: stem -> file state
    responses,    \* what the model service answered for each processed file
    gross_pays,   \* manual total: the collected values
    total_manual_gross, \* manual total: the running sum, in units of 1/Scale
    json_data,    \* search_key: the structure searched
    found,        \* search_key: the list it returned
    folder,       \* perform_OCR: the directory entries, in iterdir() order
    extracted,    \* perform_OCR: entry name -> the text extracted from it
    txt_disk      \* perform_OCR: output directory, file name -> source saved

vars == <<pc, txt_files, idx, results, json_disk, responses, gross_pays,
          total_manual_gross, json_data, found, folder, extracted, txt_disk>>

-----------------------------------------------------------------------------
(* Bounds of the model *)

\* longest batch of transcripts handed to create_JSON
NFiles == 2
\* longest "records" list in a model response
MaxRecords == 2
\* longest list of collected gross-pay values, the worked example aside
MaxVals == 3
\* nesting depth of the structures handed to search_key
MaxDepth == 3
\* most entries in the directory handed to perform_OCR
MaxDirFiles == 3
\* fractional decimal digits kept by the fixed-point sum
FracDigits == 2

Scale == 10 ^ FracDigits

-----------------------------------------------------------------------------
(* Characters and strings *)

UpperAlpha == <<"A","B","C","D","E","F","G","H","I","J","K","L","M",
                "N","O","P","Q","R","S","T","U","V","W","X","Y","Z">>
LowerAlpha == <<"a","b","c","d","e","f","g","h","i","j","k","l","m",
                "n","o","p","q","r","s","t","u","v","w","x","y","z">>
Digits == {"0","1","2","3","4","5","6","7","8","9"}

Range(f) == {f[i] : i \in DOMAIN f}
SetMin(S) == CHOOSE m \in S : \A o \in S : m <= o
SetMax(S) == CHOOSE m \in S : \A o \in S : m >= o

IsUpper(c) == c \in Range(UpperAlpha)
IsLower(c) == c \in Range(LowerAlpha)
IsDigit(c) == c \in Digits
IsSpace(c) == c \in {" ", "\t", "\n", "\r"}
\* \w of Python's re on the characters used here: letter, digit or underscore
IsWord(c) == IsUpper(c) \/ IsLower(c) \/ IsDigit(c) \/ c = "_"

ToLower(c) ==
    IF IsUpper(c)
    THEN LowerAlpha[CHOOSE i \in DOMAIN UpperAlpha : UpperAlpha[i] = c]
    ELSE c

\* str.lower()
lower(s) == [i \in 1..Len(s) |-> ToLower(s[i])]

\* str.strip()
strip(s) ==
    LET keep == {i \in 1..Len(s) : ~IsSpace(s[i])}
    IN  IF keep = {} THEN <<>> ELSE SubSeq(s, SetMin(keep), SetMax(keep))

\* the concatenation of the sequences ss[1], ..., ss[Len(ss)]
RECURSIVE Flatten(_)
Flatten(ss) == IF ss = <<>> THEN <<>> ELSE Head(ss) \o Flatten(Tail(ss))

-----------------------------------------------------------------------------
(* Parsed JSON values *)

Node(t, s, items, n) == [t |-> t, s |-> s, items |-> items, n |-> n]
KV(k, v) == [k |-> k, v |-> v]
JStr(s) == Node("str", s, <<>>, 0)
JNum(repr) == Node("num", repr, <<>>, 0)
JFloat(n) == Node("float", <<>>, <<>>, n)
JNull == Node("null", <<>>, <<>>, 0)
JDict(pairs) == Node("dict", <<>>, pairs, 0)
JList(vals) == Node("list", <<>>, [i \in 1..Len(vals) |-> KV(<<>>, vals[i])], 0)

Values(node) == [i \in 1..Len(node.items) |-> node.items[i].v]
Keys(node) == [i \in 1..Len(node.items) |-> node.items[i].k]

\* k in d
HasKey(d, k) == \E i \in 1..Len(d.items) : d.items[i].k = k
\* d.get(k, default)
DictGet(d, k, default) ==
    IF HasKey(d, k)
    THEN d.items[CHOOSE i \in 1..Len(d.items) : d.items[i].k = k].v
    ELSE default
\* d[k] = v: an existing key keeps its place, a new one goes last
DictSet(d, k, v) ==
    IF HasKey(d, k)
    THEN [d EXCEPT !.items =
             [i \in 1..Len(@) |-> IF @[i].k = k THEN KV(k, v) ELSE @[i]]]
    ELSE [d EXCEPT !.items = Append(@, KV(k, v))]
\* d.pop(k, ...): d without k
DictPop(d, k) ==
    LET others(e) == e.k # k
    IN  [d EXCEPT !.items = SelectSeq(@, others)]

\* bool(v) of Python
Truthy(v) ==
    CASE v.t = "str" -> v.s # <<>>
      [] v.t = "num" -> v.s \notin {<<"0">>, <<"0",".","0">>}
      [] v.t = "float" -> v.n # 0
      [] v.t = "null" -> FALSE
      [] OTHER -> v.items # <<>>

-----------------------------------------------------------------------------
(* json_creation.py: normalize_key, search_key *)

\* re.sub(r'\W+', '', key).lower(): the underscore is a word character
normalize_key(key) == lower(SelectSeq(key, IsWord))

RECURSIVE recursive_search(_, _)
recursive_search(data, normalized_target) ==
    CASE data.t = "dict" ->
            Flatten([i \in 1..Len(data.items) |->
                (IF normalize_key(data.items[i].k) = normalized_target
                 THEN <<data.items[i].v>> ELSE <<>>)
                \o recursive_search(data.items[i].v, normalized_target)])
      [] data.t = "list" ->
            Flatten([i \in 1..Len(data.items) |->
                recursive_search(data.items[i].v, normalized_target)])
      [] OTHER -> <<>>

search_key(key_to_search, data) ==
    recursive_search(data, normalize_key(key_to_search))

-----------------------------------------------------------------------------
(* json_creation.py: the manual total (create_JSON, lines 150-158) *)

DigitSeq == <<"0","1","2","3","4","5","6","7","8","9">>
DigitVal(c) == (CHOOSE i \in DOMAIN DigitSeq : DigitSeq[i] = c) - 1

RECURSIVE DecimalValue(_)
DecimalValue(ds) ==
    IF ds = <<>> THEN 0
    ELSE 10 * DecimalValue(SubSeq(ds, 1, Len(ds) - 1)) + DigitVal(ds[Len(ds)])

RECURSIVE JoinSeq(_, _)
JoinSeq(parts, sep) ==
    IF parts = <<>> THEN <<>>
    ELSE IF Len(parts) = 1 THEN parts[1]
    ELSE parts[1] \o sep \o JoinSeq(Tail(parts), sep)

\* repr() of a parsed JSON value (text without quotes or backslashes)
RECURSIVE py_repr(_)
py_repr(v) ==
    CASE v.t = "str" -> <<"'">> \o v.s \o <<"'">>
      [] v.t = "num" -> v.s
      [] v.t = "null" -> <<"N","o","n","e">>
      [] v.t = "list" ->
            <<"[">> \o JoinSeq([i \in 1..Len(v.items) |-> py_repr(v.items[i].v)],
                               <<","," ">>) \o <<"]">>
      [] OTHER ->
            <<"{">> \o JoinSeq([i \in 1..Len(v.items) |->
                                   <<"'">> \o v.items[i].k \o <<"'">> \o <<":"," ">>
                                   \o py_repr(v.items[i].v)],
                               <<","," ">>) \o <<"}">>

\* str(gp)
py_str(v) == IF v.t = "str" THEN v.s ELSE py_repr(v)

\* re.sub(r"[^\d.]", "", text): a pattern that also drops the minus sign
strip_non_numeric_unsigned(text) ==
    LET numeric(c) == IsDigit(c) \/ c = "."
    IN  SelectSeq(text, numeric)

\* re.sub(r"[^\d.\-]", "", text)
strip_non_numeric(text) ==
    LET numeric(c) == IsDigit(c) \/ c = "." \/ c = "-"
    IN  SelectSeq(text, numeric)

\* whether float(value) returns, for a value of digits, '.' and '-' only:
\* [-] digits [. [digits]]  or  [-] . digits
float_parses(value) ==
    LET body == IF value # <<>> /\ Head(value) = "-" THEN Tail(value) ELSE value
        dots == {i \in 1..Len(body) : body[i] = "."}
    IN  /\ \A i \in 1..Len(body) : body[i] # "-"
        /\ Cardinality(dots) <= 1
        /\ \E i \in 1..Len(body) : IsDigit(body[i])

\* float(value) in units of 1/Scale, for a value float_parses accepts whose
\* fractional part has at most FracDigits digits
float_of(value) ==
    LET neg == Head(value) = "-"
        body == IF neg THEN Tail(value) ELSE value
        dots == {i \in 1..Len(body) : body[i] = "."}
        dot == IF dots = {} THEN Len(body) + 1 ELSE SetMin(dots)
        whole == SubSeq(body, 1, dot - 1)
        frac == SubSeq(body, dot + 1, Len(body))
        padded == [i \in 1..FracDigits |-> IF i <= Len(frac) THEN frac[i] ELSE "0"]
        magnitude == DecimalValue(whole) * Scale + DecimalValue(padded)
    IN  IF neg THEN 0 - magnitude ELSE magnitude

\* one turn of "for gp in gross_pays": try / float / except: continue
add_gross_pay(total, gp) ==
    LET value == strip_non_numeric(py_str(gp))
    IN  IF value # <<>> /\ float_parses(value)
        THEN total + float_of(value)
        ELSE total

\* the whole loop, from total_manual_gross = 0.0
RECURSIVE manual_total(_)
manual_total(values) ==
    IF values = <<>> THEN 0
    ELSE add_gross_pay(manual_total(SubSeq(values, 1, Len(values) - 1)),
                       values[Len(values)])

-----------------------------------------------------------------------------
(* pathlib *)

\* Path.stem: the name up to its last dot, unless that dot is first or last
PathStem(name) ==
    LET dots == {i \in 1..Len(name) : name[i] = "."}
        i == IF dots = {} THEN 0 ELSE SetMax(dots)
    IN  IF 1 < i /\ i < Len(name) THEN SubSeq(name, 1, i - 1) ELSE name

\* Path.suffix: from the last dot on, unless that dot is first or last
PathSuffix(name) ==
    LET dots == {i \in 1..Len(name) : name[i] = "."}
        i == IF dots = {} THEN 0 ELSE SetMax(dots)
    IN  IF 1 < i /\ i < Len(name) THEN SubSeq(name, i, Len(name)) ELSE <<>>

-----------------------------------------------------------------------------
(* json_creation.py: one document of create_JSON (lines 125-166) *)

K_records == <<"r","e","c","o","r","d","s">>
K_AgencyName == <<"A","g","e","n","c","y"," ","N","a","m","e">>
K_PersonName == <<"P","e","r","s","o","n"," ","N","a","m","e">>
K_Agency == <<"A","g","e","n","c","y">>
K_GrossPay == <<"G","r","o","s","s"," ","P","a","y">>
K_ManualTotal == <<"M","a","n","u","a","l"," ","T","o","t","a","l"," ","G","r","o","s","s"," ","P","a","y","s">>
K_error == <<"e","r","r","o","r">>

\* what the try block of one document ends with: the entities to save, or
\* the exception's message
Success(entities) == [ok |-> TRUE, error |-> "", entities |-> entities]
Failure(message) == [ok |-> FALSE, error |-> message, entities |-> JNull]

\* iter(v): the keys of a dict, the elements of a list, the characters of a str
py_iterable(v) == v.t \in {"dict", "list", "str"}
py_iter(v) ==
    CASE v.t = "dict" -> [i \in 1..Len(v.items) |-> JStr(v.items[i].k)]
      [] v.t = "list" -> Values(v)
      [] OTHER -> [i \in 1..Len(v.s) |-> JStr(<<v.s[i]>>)]

\* person_name in {"other", "others"} without the strip()
is_excluded_person_unstripped(person_name) ==
    lower(person_name) \in {<<"o","t","h","e","r">>, <<"o","t","h","e","r","s">>}

\* record.get("Person Name", "").strip().lower() in {"other", "others"}
is_excluded_person(person_name) ==
    lower(strip(person_name)) \in {<<"o","t","h","e","r">>, <<"o","t","h","e","r","s">>}

\* the turns of "for record in entities['records']" that raise: a record
\* without .get, or a person name without .strip
record_raises(record) ==
    \/ record.t # "dict"
    \/ DictGet(record, K_PersonName, JStr(<<>>)).t # "str"

\* if not record.get("Agency"): record["Agency"] = agency_name
backfill_agency(record, agency_name) ==
    IF ~Truthy(DictGet(record, K_Agency, JNull))
    THEN DictSet(record, K_Agency, JStr(agency_name))
    ELSE record

\* clean_records, for records none of which raises
filter_records(records, agency_name) ==
    LET kept(record) ==
            ~is_excluded_person(DictGet(record, K_PersonName, JStr(<<>>)).s)
        survivors == SelectSeq(records, kept)
    IN  [i \in 1..Len(survivors) |-> backfill_agency(survivors[i], agency_name)]

\* an assembly that drops the record list from the saved object
assemble_without_records(entities, clean_records, real_agency_name, summary_data) ==
    DictSet(DictPop(DictPop(entities, K_records), K_AgencyName),
            real_agency_name, summary_data)

\* entities["records"] = clean_records; entities.pop("Agency Name", {});
\* entities[real_agency_name] = summary_data
assemble(entities, clean_records, real_agency_name, summary_data) ==
    DictSet(DictPop(DictSet(entities, K_records, JList(clean_records)),
                    K_AgencyName),
            real_agency_name, summary_data)

\* lines 137-166, once the agency name is resolved and allowed
process_records(entities, agency_block, agency_name) ==
    LET records_value == DictGet(entities, K_records, JNull)
        records == py_iter(records_value)
        clean_records == filter_records(records, agency_name)
        gross == search_key(K_GrossPay, JList(clean_records))
        total == manual_total(gross)
        first_agency == DictGet(clean_records[1], K_Agency, JStr(<<>>))
        real_agency_name == strip(first_agency.s)
        summary_data == DictGet(agency_block, agency_name, JDict(<<>>))
    IN  IF ~py_iterable(records_value)
        THEN Failure("object is not iterable")
        ELSE IF \E i \in 1..Len(records) :
                   /\ record_raises(records[i])
                   /\ \A j \in 1..(i - 1) : ~record_raises(records[j])
        THEN Failure("object has no attribute")
        ELSE IF clean_records = <<>>
        THEN Failure("list index out of range")
        ELSE IF first_agency.t # "str"
        THEN Failure("object has no attribute 'strip'")
        ELSE IF real_agency_name = <<>>
        THEN Failure("Missing agency name in record.")
        ELSE IF agency_block.t # "dict"
        THEN Failure("object has no attribute 'get'")
        ELSE IF summary_data.t # "dict"
        THEN Failure("object does not support item assignment")
        ELSE Success(assemble(entities, clean_records, real_agency_name,
                              DictSet(summary_data, K_ManualTotal, JFloat(total))))

\* lines 129-135, then the rest
process_entities(entities) ==
    IF \/ entities.t # "dict"
       \/ ~HasKey(entities, K_records)
       \/ ~HasKey(entities, K_AgencyName)
    THEN Failure("Invalid response structure from OpenAI.")
    ELSE LET agency_block == DictGet(entities, K_AgencyName, JNull)
         IN  IF ~py_iterable(agency_block)
             THEN Failure("object is not iterable")
             ELSE IF py_iter(agency_block) = <<>>
             THEN Failure("")
             ELSE IF Head(py_iter(agency_block)).t # "str"
             THEN Failure("expected string or bytes-like object")
             ELSE IF normalize_key(Head(py_iter(agency_block)).s) = <<"o","t","h","e","r","s">>
             THEN Failure("Agency name was extracted as 'Others', which is not allowed.")
             ELSE process_records(entities, agency_block,
                                  Head(py_iter(agency_block)).s)

\* extract_entities_from_text: the service call raises, or json.loads raises,
\* or the parsed value is returned
extract_entities_from_text(response) ==
    CASE response.kind = "call_raises" -> Failure("Connection error.")
      [] response.kind = "invalid_json" -> Failure("Expecting value")
      [] OTHER -> Success(response.value)

\* the try block up to the point where the output file is opened
document_outcome(response) ==
    LET parsed == extract_entities_from_text(response)
    IN  IF parsed.ok THEN process_entities(parsed.entities) ELSE parsed

-----------------------------------------------------------------------------
(* Model responses the service may give *)

Rec3(person, agency, pay_key, pay) ==
    JDict(<<KV(K_PersonName, person), KV(K_Agency, agency), KV(pay_key, pay)>>)

RecordSet ==
    { Rec3(JStr(<<"A","n","n">>), JStr(<<"A","c","m","e">>), K_GrossPay, JStr(<<"3","2","0",".","0","0">>)),
      Rec3(JStr(<<"B","o","b">>), JStr(<<>>), K_GrossPay, JStr(<<"4","1","0",".","5","0">>)),
      Rec3(JStr(<<" ","O","t","h","e","r","s"," ">>), JStr(<<"A","c","m","e">>), K_GrossPay, JStr(<<"9","9",".","0","0">>)),
      Rec3(JStr(<<"O","T","H","E","R">>), JStr(<<>>), K_GrossPay, JStr(<<"1",".","0","0">>)),
      Rec3(JStr(<<"M","r"," ","O","t","h","e","r">>), JStr(<<"B","e","t","a">>), <<"g","r","o","s","s","-","p","a","y">>, JStr(<<"a","b","c">>)),
      Rec3(JStr(<<"D","i">>), JStr(<<"o","t","h","e","r","s">>), <<"G","r","o","s","s","_","P","a","y">>, JStr(<<"5",".","0","0">>)),
      JDict(<<KV(K_PersonName, JStr(<<"E","d">>)), KV(K_GrossPay, JNull),
              KV(<<"E","x","t","r","a">>, JList(<<JDict(<<KV(<<"G","R","O","S","S"," ","P","A","Y">>, JStr(<<"1","0",".","0","0">>))>>)>>))>>),
      Rec3(JNull, JStr(<<"A","c","m","e">>), K_GrossPay, JStr(<<"7",".","0","0">>)),
      Rec3(JStr(<<"F","l","o">>), JStr(<<" ">>), K_GrossPay, JStr(<<"-","5","0",".","2","5">>)),
      Rec3(JStr(<<"G","u","s">>), JStr(<<"r","e","c","o","r","d","s">>), K_GrossPay, JNum(<<"2",".","5">>)),
      Rec3(JStr(<<"H","a","l">>), JStr(<<" ","A","g","e","n","c","y"," ","N","a","m","e">>), K_GrossPay, JStr(<<"£","1",",","2","5","0",".","0","0">>)) }

RECURSIVE SeqsUpTo(_, _)
SeqsUpTo(S, n) ==
    IF n = 0 THEN {<<>>}
    ELSE LET shorter == SeqsUpTo(S, n - 1)
         IN  shorter \cup {Append(q, x) : q \in shorter, x \in S}

RecordLists == SeqsUpTo(RecordSet, MaxRecords)

Summary == JDict(<<KV(<<"T","o","t","a","l"," ","G","r","o","s","s"," ","P","a","y">>, JStr(<<"7","3","0",".","5","0">>))>>)

AgencyBlocks ==
    { JDict(<<KV(<<"A","c","m","e">>, Summary)>>),
      JDict(<<KV(<<"O","t","h","e","r","s","!">>, Summary)>>),
      JDict(<<KV(<<>>, Summary)>>),
      JDict(<<>>),
      JDict(<<KV(<<"B","e","t","a">>, JDict(<<>>)), KV(<<"A","c","m","e">>, Summary)>>) }

\* agency mappings that let the records through and fail afterwards: a
\* summary that is no mapping, a list in place of the mapping
LateFailingBlocks ==
    { JDict(<<KV(<<"A","c","m","e">>, JStr(<<"n","/","a">>))>>),
      JList(<<JStr(<<"A","c","m","e">>)>>) }

Json(value) == [kind |-> "json", value |-> value]
Entities(records_value, agency_block) ==
    JDict(<<KV(K_records, records_value), KV(K_AgencyName, agency_block)>>)

TwoPeople ==
    <<Rec3(JStr(<<"A","n","n">>), JStr(<<"A","c","m","e">>), K_GrossPay, JStr(<<"3","2","0",".","0","0">>)),
      Rec3(JStr(<<"B","o","b">>), JStr(<<>>), K_GrossPay, JStr(<<"4","1","0",".","5","0">>))>>

\* responses that fail before the records are looked at
BrokenResponses ==
    { [kind |-> "call_raises", value |-> JNull],
      [kind |-> "invalid_json", value |-> JNull],
      Json(JList(<<>>)),
      Json(JDict(<<KV(K_AgencyName, JDict(<<KV(<<"A","c","m","e">>, Summary)>>))>>)),
      Json(JDict(<<KV(K_records, JList(TwoPeople))>>)),
      Json(Entities(JNull, JDict(<<KV(<<"A","c","m","e">>, Summary)>>))),
      Json(Entities(JList(TwoPeople), JNull)) }

\* the responses of the one-document specification
DocResponses ==
    BrokenResponses
    \cup {Json(Entities(JList(rs), ab)) : rs \in RecordLists, ab \in AgencyBlocks}
    \cup {Json(DictSet(Entities(JList(TwoPeople), ab), <<"n","o","t","e","s">>, JStr(<<"x">>))) :
              ab \in AgencyBlocks \cup LateFailingBlocks}
    \cup {Json(Entities(JList(TwoPeople), ab)) : ab \in LateFailingBlocks}

\* the responses of the batch specification: one per way a document ends
BatchResponses ==
    BrokenResponses
    \cup {Json(Entities(JList(rs), JDict(<<KV(<<"A","c","m","e">>, Summary)>>))) :
              rs \in {TwoPeople, <<>>, <<TwoPeople[2], TwoPeople[1]>>}}
    \cup {Json(Entities(JList(TwoPeople), JDict(<<KV(<<"O","t","h","e","r","s","!">>, Summary)>>))),
          Json(Entities(JList(<<TwoPeople[2]>>), JDict(<<KV(<<>>, Summary)>>)))}

-----------------------------------------------------------------------------
(* json_creation.py: create_JSON (lines 108-179) *)

\* the i-th transcript of the folder: d1.txt, d2.txt, ...
TxtName(i) == <<"d", DigitSeq[i + 1]>> \o <<".","t","x","t">>

\* states of an output file other than a complete dump
Absent == Node("absent", <<>>, <<>>, 0)
Stale == Node("stale", <<>>, <<>>, 0)
Truncated == Node("truncated", <<>>, <<>>, 0)

\* {"error": str(e)}
ErrorMarker(message) == JDict(<<KV(K_error, JStr(<<message>>))>>)
IsErrorMarker(result) ==
    /\ Keys(result) = <<K_error>>
    /\ result.items[1].v.t = "str"

\* what open(json_filename, "w") and json.dump may do
IOOutcomes == {"written", "open_raises", "dump_raises"}

\* the variables of the functions a specification does not run
IdleCreate ==
    /\ txt_files = <<>>
    /\ results = <<>>
    /\ json_disk = <<>>
    /\ responses = <<>>
IdleTotal == gross_pays = <<>> /\ total_manual_gross = 0
IdleSearch == json_data = JNull /\ found = <<>>
IdleOCR == folder = <<>> /\ extracted = <<>> /\ txt_disk = <<>>

InitOther == IdleTotal /\ IdleSearch /\ IdleOCR

InitFiles(n) ==
    /\ pc = "glob"
    /\ txt_files = [i \in 1..n |-> TxtName(i)]
    /\ idx = 1
    /\ results = <<>>
    /\ responses = <<>>
    /\ json_disk \in [{PathStem(TxtName(i)) : i \in 1..n} -> {Absent, Stale}]
    /\ InitOther

Init == \E n \in 0..NFiles : InitFiles(n)

InitDoc == InitFiles(1)

UnchangedOther ==
    UNCHANGED <<gross_pays, total_manual_gross, json_data, found, folder,
                extracted, txt_disk>>

\* lines 113-118: no transcript, return {}; else enter the loop
Glob ==
    /\ pc = "glob"
    /\ pc' = IF txt_files = <<>> THEN "returned" ELSE "loop"
    /\ UNCHANGED <<txt_files, idx, results, json_disk, responses>>
    /\ UnchangedOther

\* lines 122-123: open() or read() raises, outside the try block
ReadRaises ==
    /\ pc = "loop"
    /\ idx <= Len(txt_files)
    /\ pc' = "raised"
    /\ UNCHANGED <<txt_files, idx, results, json_disk, responses>>
    /\ UnchangedOther

\* lines 125-177: one turn of the loop whose transcript was read
ProcessFile(response, io) ==
    LET file == txt_files[idx]
        stem == PathStem(file)
        outcome == document_outcome(response)
    IN  /\ pc = "loop"
        /\ idx <= Len(txt_files)
        /\ responses' = (file :> response) @@ responses
        /\ IF ~outcome.ok
           THEN /\ results' = (file :> ErrorMarker(outcome.error)) @@ results
                /\ UNCHANGED json_disk
           ELSE CASE io = "written" ->
                       /\ json_disk' = [json_disk EXCEPT ![stem] = outcome.entities]
                       /\ results' = (file :> outcome.entities) @@ results
                  [] io = "open_raises" ->
                       /\ UNCHANGED json_disk
                       /\ results' = (file :> ErrorMarker("Permission denied")) @@ results
                  [] OTHER ->
                       /\ json_disk' = [json_disk EXCEPT ![stem] = Truncated]
                       /\ results' = (file :> ErrorMarker("No space left on device")) @@ results
        /\ idx' = idx + 1
        /\ UNCHANGED <<pc, txt_files>>
        /\ UnchangedOther

\* line 179
Return ==
    /\ pc = "loop"
    /\ idx > Len(txt_files)
    /\ pc' = "returned"
    /\ UNCHANGED <<txt_files, idx, results, json_disk, responses>>
    /\ UnchangedOther

create_JSON(Responses) ==
    \/ Glob
    \/ ReadRaises
    \/ \E response \in Responses, io \in IOOutcomes : ProcessFile(response, io)
    \/ Return

Next == create_JSON(BatchResponses)
NextDoc == create_JSON(DocResponses)

Spec == Init /\ [][Next]_vars
SpecDoc == InitDoc /\ [][NextDoc]_vars

-----------------------------------------------------------------------------
(* Notions the claims about create_JSON are stated with *)

Processed == DOMAIN results
Succeeded(f) == f \in Processed /\ ~IsErrorMarker(results[f])
Failed(f) == f \in Processed /\ IsErrorMarker(results[f])
OutputFile(f) == json_disk[PathStem(f)]

\* the response's record list and agency mapping, for a response that has them
ResponseRecords(f) == py_iter(DictGet(responses[f].value, K_records, JNull))
ResponseAgencyBlock(f) == DictGet(responses[f].value, K_AgencyName, JNull)
ResolvedAgency(f) == ResponseAgencyBlock(f).items[1].k

\* the person name of a record, trimmed and lowercased, is "other" or "others"
NamedOther(record) ==
    lower(strip(DictGet(record, K_PersonName, JStr(<<>>)).s))
        \in {<<"o","t","h","e","r">>, <<"o","t","h","e","r","s">>}
NotNamedOther(record) == ~NamedOther(record)
Survivors(f) == SelectSeq(ResponseRecords(f), NotNamedOther)

\* the records of a result: the list under its "records" key
HasRecordList(result) ==
    HasKey(result, K_records) /\ DictGet(result, K_records, JNull).t = "list"
ResultRecords(result) ==
    IF HasRecordList(result) THEN Values(DictGet(result, K_records, JNull)) ELSE <<>>

AgencyOf(record) == DictGet(record, K_Agency, JStr(<<>>))

\* the display name: the trimmed agency of the first surviving record, which
\* is its own when the response gave one, else the resolved agency name
DisplayName(f) ==
    LET own == DictGet(Survivors(f)[1], K_Agency, JNull)
    IN  strip(IF Truthy(own) THEN own.s ELSE ResolvedAgency(f))

\* the top-level keys under which a result stores a summary
SummaryKeys(result) ==
    {k \in Range(Keys(result)) :
        /\ DictGet(result, k, JNull).t = "dict"
        /\ HasKey(DictGet(result, k, JNull), K_ManualTotal)}

-----------------------------------------------------------------------------
(* Claims about create_JSON *)

\* C1 (as claimed): create_JSON never aborts, whichever step of whichever
\* document fails, reading the transcript included; when it returns, the
\* mapping has exactly one entry per input file, an error marker for each
\* failing document and the structured result for each other one.
C1_FailureIsolation ==
    /\ pc # "raised"
    /\ pc = "returned" =>
        /\ Processed = Range(txt_files)
        /\ \A f \in Processed :
              IsErrorMarker(results[f]) \/ OutputFile(f) = results[f]

\* C2 (as claimed): a response whose agency key normalizes to "others" ends
\* in an error marker with no file written, and no summary keyed "others"
\* (whatever its case or punctuation) is ever persisted or returned.
C2_ForbiddenAgency ==
    \A f \in Processed :
        /\ ( /\ responses[f].kind = "json"
             /\ responses[f].value.t = "dict"
             /\ HasKey(responses[f].value, K_records)
             /\ ResponseAgencyBlock(f).t = "dict"
             /\ ResponseAgencyBlock(f).items # <<>>
             /\ normalize_key(ResolvedAgency(f)) = <<"o","t","h","e","r","s">> )
           => (Failed(f) /\ OutputFile(f) \in {Absent, Stale})
        /\ Succeeded(f) =>
              /\ \A k \in SummaryKeys(results[f]) : normalize_key(k) # <<"o","t","h","e","r","s">>
              /\ \A k \in SummaryKeys(OutputFile(f)) : normalize_key(k) # <<"o","t","h","e","r","s">>

\* C3: in the result of a successfully processed document, returned or
\* persisted, no record is named "other" or "others" (trimmed, lowercased),
\* and the records of the response not so named are the records of the
\* result, in their original order (their agency aside, which may be filled).
C3_RecordFilter ==
    \A f \in Processed : Succeeded(f) =>
        LET out == ResultRecords(results[f])
            kept == Survivors(f)
        IN  /\ OutputFile(f) = results[f]
            /\ \A i \in 1..Len(out) : ~NamedOther(out[i])
            /\ HasRecordList(results[f]) =>
                  /\ Len(out) = Len(kept)
                  /\ \A i \in 1..Len(out) :
                        DictPop(out[i], K_Agency) = DictPop(kept[i], K_Agency)
            /\ ~HasRecordList(results[f]) => DisplayName(f) = K_records

\* C3 witness: a document succeeded whose response held a record named
\* other/others before a record that survives.
C3_Witness ==
    \E f \in Processed :
        /\ pc = "returned"
        /\ Succeeded(f)
        /\ HasRecordList(results[f])
        /\ Len(ResponseRecords(f)) = 2
        /\ NamedOther(ResponseRecords(f)[1])
        /\ DictGet(ResponseRecords(f)[1], K_PersonName, JNull).s = <<" ","O","t","h","e","r","s"," ">>
        /\ Len(ResultRecords(results[f])) = 1

\* C4 (as claimed): every record in the result of a successfully processed
\* document has a non-empty agency, equal to its original non-empty value or
\* to the resolved agency name, an empty-string agency key included.
C4_AgencyBackfill ==
    \A f \in Processed : (Succeeded(f) /\ HasRecordList(results[f])) =>
        LET out == ResultRecords(results[f])
            kept == Survivors(f)
        IN  \A i \in 1..Len(out) :
                /\ AgencyOf(out[i]).t = "str"
                /\ AgencyOf(out[i]).s # <<>>
                /\ \/ (Truthy(AgencyOf(kept[i])) /\ AgencyOf(out[i]) = AgencyOf(kept[i]))
                   \/ AgencyOf(out[i]).s = ResolvedAgency(f)

\* C5 (as claimed): the object written for a successfully processed document
\* has no top-level "records" key and no "Agency Name" key; its only
\* top-level key is the display name, holding the summary of the resolved
\* agency with "Manual Total Gross Pays" added.
C5_OnlySummaryPersisted ==
    \A f \in Processed : Succeeded(f) =>
        /\ ~HasKey(OutputFile(f), K_records)
        /\ ~HasKey(OutputFile(f), K_AgencyName)
        /\ Keys(OutputFile(f)) = <<DisplayName(f)>>
        /\ DictPop(DictGet(OutputFile(f), DisplayName(f), JNull), K_ManualTotal)
              = DictGet(ResponseAgencyBlock(f), ResolvedAgency(f), JNull)

\* what the two-people example of the specification is saved as
TwoPeopleSaved ==
    JDict(<<KV(K_records,
               JList(<<TwoPeople[1],
                       Rec3(JStr(<<"B","o","b">>), JStr(<<"A","c","m","e">>), K_GrossPay, JStr(<<"4","1","0",".","5","0">>))>>)),
            KV(<<"A","c","m","e">>,
               JDict(<<KV(<<"T","o","t","a","l"," ","G","r","o","s","s"," ","P","a","y">>, JStr(<<"7","3","0",".","5","0">>)),
                       KV(K_ManualTotal, JFloat(73050 * (Scale \div 100)))>>))>>)

\* C5 (amended): the object written for a successfully processed document,
\* which is also the one returned, keeps the top-level "records" key with the
\* filtered, back-filled record list; the summary of the resolved agency,
\* with a float "Manual Total Gross Pays" added, is stored under the display
\* name; "Agency Name" is removed and every other top-level key of the
\* response is kept.  (A display name that is itself "records" or
\* "Agency Name" takes that key for the summary.)
C5_RecordsKept ==
    \A f \in Processed : Succeeded(f) =>
        LET written == OutputFile(f)
            name == DisplayName(f)
            stored == DictGet(written, name, JNull)
        IN  /\ written = results[f]
            /\ Range(Keys(written)) =
                  (Range(Keys(responses[f].value)) \ {K_AgencyName}) \cup {name}
            /\ DictPop(stored, K_ManualTotal)
                  = DictGet(ResponseAgencyBlock(f), ResolvedAgency(f), JNull)
            /\ DictGet(stored, K_ManualTotal, JNull).t = "float"
            /\ name # K_records =>
                  /\ HasRecordList(written)
                  /\ Len(ResultRecords(written)) = Len(Survivors(f))
                  /\ \A i \in 1..Len(Survivors(f)) :
                        ResultRecords(written)[i] =
                            IF Truthy(AgencyOf(Survivors(f)[i]))
                            THEN Survivors(f)[i]
                            ELSE DictSet(Survivors(f)[i], K_Agency,
                                         JStr(ResolvedAgency(f)))
            /\ \A k \in Range(Keys(written)) \ {name, K_records} :
                  DictGet(written, k, JNull) = DictGet(responses[f].value, k, JNull)
            /\ responses[f].value
                   = Entities(JList(TwoPeople), JDict(<<KV(<<"A","c","m","e">>, Summary)>>))
                  => written = TwoPeopleSaved

\* C5 witness: the two-people document was saved, with its records.
C5_Witness ==
    \E f \in Processed :
        /\ pc = "returned"
        /\ Succeeded(f)
        /\ responses[f].value
               = Entities(JList(TwoPeople), JDict(<<KV(<<"A","c","m","e">>, Summary)>>))
        /\ HasRecordList(OutputFile(f))
        /\ HasKey(OutputFile(f), <<"A","c","m","e">>)

\* C9 (as claimed): a document whose entry is an error marker had no output
\* file created or modified, and a document whose entry is a structured
\* result has a file holding exactly that result.
C9_Atomicity ==
    \A f \in Processed :
        IF IsErrorMarker(results[f])
        THEN OutputFile(f) \in {Absent, Stale}
        ELSE OutputFile(f) = results[f]

\* C10 (as claimed): in a successfully processed document every surviving
\* record's agency is non-empty and, normalized, equals the normalized
\* top-level key under which the summary is stored.
C10_AgencyConsistency ==
    \A f \in Processed : (Succeeded(f) /\ HasRecordList(results[f])) =>
        \A i \in 1..Len(ResultRecords(results[f])) :
            LET agency == AgencyOf(ResultRecords(results[f])[i])
            IN  /\ agency.t = "str"
                /\ agency.s # <<>>
                /\ \A k \in SummaryKeys(results[f]) :
                      normalize_key(agency.s) = normalize_key(k)

-----------------------------------------------------------------------------
(* The manual total on its own: "for gp in gross_pays" (lines 150-158) *)

\* the worked example: "£1,250.00", "abc", "-50.25", ""
ExampleGrossPays ==
    <<JStr(<<"£","1",",","2","5","0",".","0","0">>), JStr(<<"a","b","c">>), JStr(<<"-","5","0",".","2","5">>), JStr(<<>>)>>

GrossPayValues ==
    Range(ExampleGrossPays)
    \cup {JStr(<<"1",".","2",".","3">>), JStr(<<"-">>), JStr(<<"4","1","0",".","5","0">>), JStr(<<".","5">>),
          JNull, JNum(<<"3","2","0",".","5">>)}

InitTotal ==
    /\ pc = "sum"
    /\ idx = 1
    /\ gross_pays \in SeqsUpTo(GrossPayValues, MaxVals) \cup {ExampleGrossPays}
    /\ total_manual_gross = 0
    /\ IdleCreate /\ IdleSearch /\ IdleOCR

\* one turn of the loop
AddNext ==
    /\ pc = "sum"
    /\ idx <= Len(gross_pays)
    /\ total_manual_gross' = add_gross_pay(total_manual_gross, gross_pays[idx])
    /\ idx' = idx + 1
    /\ UNCHANGED <<pc, gross_pays, txt_files, results, json_disk, responses,
                   json_data, found, folder, extracted, txt_disk>>

\* the loop is over
EndSum ==
    /\ pc = "sum"
    /\ idx > Len(gross_pays)
    /\ pc' = "summed"
    /\ UNCHANGED <<idx, gross_pays, total_manual_gross, txt_files, results,
                   json_disk, responses, json_data, found, folder, extracted,
                   txt_disk>>

NextTotal == AddNext \/ EndSum
SpecTotal == InitTotal /\ [][NextTotal]_vars

\* what Python's float() makes of each value once stripped, in hundredths;
\* 0 for a value that is skipped
Hundredths(gp) ==
    CASE gp = JStr(<<"£","1",",","2","5","0",".","0","0">>) -> 125000
      [] gp = JStr(<<"-","5","0",".","2","5">>) -> 0 - 5025
      [] gp = JStr(<<"4","1","0",".","5","0">>) -> 41050
      [] gp = JStr(<<".","5">>) -> 50
      [] gp = JNum(<<"3","2","0",".","5">>) -> 32050
      [] OTHER -> 0

RECURSIVE SumHundredths(_)
SumHundredths(values) ==
    IF values = <<>> THEN 0 ELSE Hundredths(Head(values)) + SumHundredths(Tail(values))

\* C6: after any number of turns the running total is the sum of the values
\* seen so far that parse as a number once stripped of every character but
\* digits, '.' and '-'; a value that is empty or malformed after stripping
\* ("abc", "", "1.2.3", "-", None) adds nothing, stops nothing and leaves the
\* other contributions alone.  The worked example sums to 1199.75.
C6_ManualTotal ==
    /\ total_manual_gross * 100 =
          SumHundredths(SubSeq(gross_pays, 1, idx - 1)) * Scale
    /\ pc = "summed" => idx = Len(gross_pays) + 1
    /\ (pc = "summed" /\ gross_pays = ExampleGrossPays)
          => total_manual_gross * 100 = 119975 * Scale

\* C6 witness: the worked example has been summed to 1199.75.
C6_Witness ==
    /\ pc = "summed"
    /\ gross_pays = ExampleGrossPays
    /\ total_manual_gross * 100 = 119975 * Scale

-----------------------------------------------------------------------------
(* search_key on its own *)

SearchKeys ==
    {K_GrossPay, <<"G","R","O","S","S"," ","P","A","Y">>, <<"g","r","o","s","s","-","p","a","y">>, <<"G","r","o","s","s","_","P","a","y">>, <<"a">>}

\* the structures of depth at most d: a scalar, a list of one or two
\* structures, a mapping of one or two entries
RECURSIVE Nested(_)
Nested(d) ==
    IF d = 0 THEN {JStr(<<"1","0","0",".","5","0">>), JStr(<<"7">>)}
    ELSE LET inner == Nested(d - 1)
         IN  inner
             \cup {JList(<<x>>) : x \in inner}
             \cup {JList(<<y, x>>) : x \in inner, y \in Nested(0)}
             \cup {JDict(<<KV(k, x)>>) : k \in SearchKeys, x \in inner}
             \cup {JDict(<<KV(<<"N","e","t"," ","P","a","y">>, y), KV(k, x)>>) :
                      k \in SearchKeys, x \in inner, y \in Nested(0)}

ExampleNested ==
    JDict(<<KV(<<"a">>, JList(<<JDict(<<KV(K_GrossPay, JStr(<<"1","0","0",".","5","0">>))>>)>>))>>)

InitSearch ==
    /\ pc = "search"
    /\ idx = 1
    /\ json_data \in Nested(MaxDepth)
    /\ found = <<>>
    /\ IdleCreate /\ IdleTotal /\ IdleOCR

Search ==
    /\ pc = "search"
    /\ found' = search_key(K_GrossPay, json_data)
    /\ pc' = "searched"
    /\ UNCHANGED <<idx, json_data, txt_files, results, json_disk, responses,
                   gross_pays, total_manual_gross, folder, extracted, txt_disk>>

NextSearch == Search
SpecSearch == InitSearch /\ [][NextSearch]_vars

\* the key equals "gross pay" once case and every non-alphanumeric
\* character are ignored
IsAlnum(c) == IsUpper(c) \/ IsLower(c) \/ IsDigit(c)
NamesGrossPay(k) == lower(SelectSeq(k, IsAlnum)) = <<"g","r","o","s","s","p","a","y">>

\* the values stored under such a key, at any depth, depth first
RECURSIVE UnderGrossPay(_)
UnderGrossPay(data) ==
    CASE data.t = "dict" ->
            Flatten([i \in 1..Len(data.items) |->
                (IF NamesGrossPay(data.items[i].k)
                 THEN <<data.items[i].v>> ELSE <<>>)
                \o UnderGrossPay(data.items[i].v)])
      [] data.t = "list" ->
            Flatten([i \in 1..Len(data.items) |-> UnderGrossPay(data.items[i].v)])
      [] OTHER -> <<>>

\* C7 (as claimed): search_key("Gross Pay", data) returns exactly the values
\* stored, at any depth, under a key that is "gross pay" once case and every
\* non-alphanumeric character are ignored ("GROSS PAY", "gross-pay",
\* "Gross_Pay"), once per occurrence and depth first, and nothing else;
\* {"a": [{"Gross Pay": "100.50"}]} yields ["100.50"].
C7_KeyNormalizedSearch ==
    pc = "searched" =>
        /\ found = UnderGrossPay(json_data)
        /\ json_data = ExampleNested => found = <<JStr(<<"1","0","0",".","5","0">>)>>

-----------------------------------------------------------------------------
(* ocr.py: extract_text, save_ocr, perform_OCR *)

ImageSuffixes == {<<".","p","n","g">>, <<".","j","p","g">>, <<".","j","p","e","g">>}
PdfSuffixes == {<<".","p","d","f">>}
ExcelSuffixes == {<<".","x","l","s">>, <<".","x","l","s","x">>}

\* the branch extract_text takes for a file name
extractor(name) ==
    LET ext == lower(PathSuffix(name))
    IN  CASE ext \in ImageSuffixes -> "extract_from_image"
          [] ext \in PdfSuffixes -> "extract_from_pdf"
          [] ext \in ExcelSuffixes -> "extract_from_excel"
          [] OTHER -> "none"

\* extract_text, given what the library behind the chosen branch returns
extract_text(name, library_text) ==
    IF extractor(name) = "none" THEN <<>> ELSE library_text

\* save_ocr: the path written
ocr_output_name(name) == PathStem(name) \o <<".","t","x","t">>

\* the entries a source directory may hold; sub.pdf is a directory
DirEntries ==
    { [name |-> <<"a",".","p","n","g">>, is_file |-> TRUE],
      [name |-> <<"a",".","p","d","f">>, is_file |-> TRUE],
      [name |-> <<"b",".","P","D","F">>, is_file |-> TRUE],
      [name |-> <<"c",".","c","s","v">>, is_file |-> TRUE],
      [name |-> <<"d",".","x","l","s","x">>, is_file |-> TRUE],
      [name |-> <<"e",".","t","a","r",".","j","p","e","g">>, is_file |-> TRUE],
      [name |-> <<"s","u","b",".","p","d","f">>, is_file |-> FALSE] }

\* what a library may return for a readable document
LibraryTexts == {<<>>, <<"t","e","x","t">>}

RECURSIVE DistinctSeqs(_, _)
DistinctSeqs(S, n) ==
    IF n = 0 THEN {<<>>}
    ELSE LET shorter == DistinctSeqs(S, n - 1)
         IN  shorter
             \cup UNION {{Append(q, x) : x \in S \ Range(q)} : q \in shorter}

InitOCR ==
    /\ pc = "iterdir"
    /\ idx = 1
    /\ folder \in DistinctSeqs(DirEntries, MaxDirFiles)
    /\ extracted = <<>>
    /\ txt_disk = <<>>
    /\ IdleCreate /\ IdleTotal /\ IdleSearch

UnchangedByOCR ==
    UNCHANGED <<txt_files, results, json_disk, responses, gross_pays,
                total_manual_gross, json_data, found>>

\* line 53: the entry is not a regular file
SkipEntry ==
    /\ pc = "iterdir"
    /\ idx <= Len(folder)
    /\ ~folder[idx].is_file
    /\ idx' = idx + 1
    /\ UNCHANGED <<pc, folder, extracted, txt_disk>>
    /\ UnchangedByOCR

\* line 54: the library behind the chosen branch raises; nothing catches it
ExtractRaises ==
    /\ pc = "iterdir"
    /\ idx <= Len(folder)
    /\ folder[idx].is_file
    /\ extractor(folder[idx].name) # "none"
    /\ pc' = "raised"
    /\ UNCHANGED <<idx, folder, extracted, txt_disk>>
    /\ UnchangedByOCR

\* lines 54-56: extract, and save what is not empty
ExtractAndSave(library_text) ==
    LET name == folder[idx].name
        raw_text == extract_text(name, library_text)
    IN  /\ pc = "iterdir"
        /\ idx <= Len(folder)
        /\ folder[idx].is_file
        /\ extracted' = (name :> raw_text) @@ extracted
        /\ txt_disk' = IF raw_text # <<>>
                       THEN (ocr_output_name(name) :> name) @@ txt_disk
                       ELSE txt_disk
        /\ idx' = idx + 1
        /\ UNCHANGED <<pc, folder>>
        /\ UnchangedByOCR

\* the loop is over
ReturnOCR ==
    /\ pc = "iterdir"
    /\ idx > Len(folder)
    /\ pc' = "returned"
    /\ UNCHANGED <<idx, folder, extracted, txt_disk>>
    /\ UnchangedByOCR

perform_OCR ==
    \/ SkipEntry
    \/ ExtractRaises
    \/ \E library_text \in LibraryTexts : ExtractAndSave(library_text)
    \/ ReturnOCR

NextOCR == perform_OCR
SpecOCR == InitOCR /\ [][NextOCR]_vars

SupportedSuffixes ==
    {<<".","p","n","g">>, <<".","j","p","g">>, <<".","j","p","e","g">>, <<".","p","d","f">>, <<".","x","l","s">>, <<".","x","l","s","x">>}

\* the regular files with a supported extension and non-empty text
ExtractedDocuments ==
    {i \in 1..Len(folder) :
        /\ folder[i].is_file
        /\ lower(PathSuffix(folder[i].name)) \in SupportedSuffixes
        /\ folder[i].name \in DOMAIN extracted
        /\ extracted[folder[i].name] # <<>>}

\* C8 (as claimed): when perform_OCR completes, the output directory holds
\* one distinct .txt file per successfully extracted document: as many files
\* as there are regular files with a supported extension and non-empty text,
\* and none for any other entry.
C8_OneFilePerDocument ==
    pc = "returned" =>
        /\ Cardinality(DOMAIN txt_disk) = Cardinality(ExtractedDocuments)
        /\ \A i \in 1..Len(folder) :
              i \notin ExtractedDocuments =>
                  \A out \in DOMAIN txt_disk : txt_disk[out] # folder[i].name

=============================================================================
